---- MODULE Spec2Model ----
(***************************************************************************)
(* Model of bond::ext::gRPC::detail::service_unary_call_data               *)
(* (cpp/inc/bond/ext/grpc/detail/service_call_data.h): the per-method      *)
(* acceptor that arms an asynchronous receive, and on every successful     *)
(* completion detaches the received call, schedules the user callback on   *)
(* the thread pool and re-arms itself.                                     *)
(*                                                                         *)
(* BOOST_ASSERT is modelled as an active check whose failure aborts the    *)
(* process.  invoke(true) is modelled by its three statements (detach,     *)
(* schedule, queue_receive) so that thread-pool tasks and other acceptors  *)
(* can interleave with them; invoke calls on ONE acceptor do not overlap   *)
(* (the completion queue hands a tag to one thread at a time).             *)
(*                                                                         *)
(* The reference count of unary_call_impl and what the user callback and   *)
(* the response path do with a call are not part of this header: they are  *)
(* modelled as a plain counted reference that the response write holds     *)
(* until it has finished.                                                  *)
(*                                                                         *)
(* Spec lets any invoke arrive at an idle acceptor; SpecDisciplined        *)
(* delivers one invoke per registered receive; SpecFair is a serving       *)
(* process whose thread pool runs every scheduled task.                    *)
(***************************************************************************)
EXTENDS Integers, Sequences, FiniteSets, Bags, TLC

\* ------------------------------------------------------------------ bounds
NumAcceptors == 2
MaxInvokes == 3
MaxMethodIndex == 3

Acceptors == 1..NumAcceptors
\* the class only stores the method index and passes it on: the first and
\* the last index of a service stand for all of them
MethodIndices == {0, MaxMethodIndex}

\* ----------------------------------------------------------- basic values
\* the empty unique_ptr / null pointer
NULL == <<>>
\* collaborators handed to the constructor: a null or a valid one
CompletionQueues == {"nullcq", "cq"}
ThreadPools == {"nullpool", "pool"}
Callbacks == {"emptycb", "cb"}
NoArg == [methodIndex |-> -1, cq |-> "none", threadPool |-> "none", cb |-> "none"]

\* the three fields of a unary_call_impl the acceptor hands to the service
context(r) == <<r, "context">>
request(r) == <<r, "request">>
responder(r) == <<r, "responder">>

VARIABLES
    constructed,    \* constructed[a]: the constructor of a returned
    aborted,        \* a BOOST_ASSERT failed: the process is gone
    ctorArg,        \* the arguments acceptor a's constructor was called with
    _methodIndex, _cq, _threadPool, _cb, _receivedCall,   \* the members
    pc,             \* position of the thread inside invoke(true)
    receivedCall,   \* the local intrusive_ptr of invoke(true)
    nextRec,        \* nextRec[a]: a's next `new uc_impl` is its nextRec[a]-th
    armLog,         \* armLog[a]: the service::queue_receive calls tagged a
    submitted,      \* submitted[a]: records of the tasks a scheduled, in order
    pool,           \* tasks scheduled on the thread pool and not yet run
    callbacks,      \* bag of records the user callback was invoked with
    delivered,      \* delivered[a]: the ok flags of the invoke calls on a
    refCount,       \* refCount[r]: the intrusive reference count of record r
    responding,     \* records whose response write is in flight
    destroyed       \* destroyed[r]: how often record r has been deleted

vars == <<constructed, aborted, ctorArg, _methodIndex, _cq, _threadPool, _cb,
          _receivedCall, pc, receivedCall, nextRec, armLog, submitted, pool,
          callbacks, delivered, refCount, responding, destroyed>>

\* every uc_impl object the acceptors can allocate within the bounds
Records == Acceptors \X (1..(MaxInvokes + 1))

heap == <<refCount, responding, destroyed>>

members == <<_methodIndex, _cq, _threadPool, _cb>>

Init ==
    /\ constructed = [a \in Acceptors |-> FALSE]
    /\ aborted = FALSE
    /\ ctorArg = [a \in Acceptors |-> NoArg]
    /\ _methodIndex = [a \in Acceptors |-> -1]
    /\ _cq = [a \in Acceptors |-> "none"]
    /\ _threadPool = [a \in Acceptors |-> "none"]
    /\ _cb = [a \in Acceptors |-> "none"]
    /\ _receivedCall = [a \in Acceptors |-> NULL]
    /\ pc = [a \in Acceptors |-> "idle"]
    /\ receivedCall = [a \in Acceptors |-> NULL]
    /\ nextRec = [a \in Acceptors |-> 1]
    /\ armLog = [a \in Acceptors |-> <<>>]
    /\ submitted = [a \in Acceptors |-> <<>>]
    /\ pool = {}
    /\ callbacks = EmptyBag
    /\ delivered = [a \in Acceptors |-> <<>>]
    /\ refCount = [r \in Records |-> 0]
    /\ responding = {}
    /\ destroyed = [r \in Records |-> 0]

\* ------------------------------------------------------ reference counting
\* intrusive_ptr takes a reference to r (nothing for a null pointer)
AddRef(rc, r) == IF r = NULL THEN rc ELSE [rc EXCEPT ![r] = @ + 1]
\* intrusive_ptr drops its reference to r ...
Release(rc, r) == IF r = NULL THEN rc ELSE [rc EXCEPT ![r] = @ - 1]
\* ... and the record is deleted when that was the last one
DeleteOnRelease(rc, d, r) ==
    IF r # NULL /\ rc[r] - 1 = 0 THEN [d EXCEPT ![r] = @ + 1] ELSE d

\* ------------------------------------------------------------ queue_receive
\* the object the next `new uc_impl` of acceptor a creates: every allocation
\* yields an object of its own, named by the allocating acceptor and the
\* number of the allocation
NewRecord(a) == <<a, nextRec[a]>>

\* variant: the method index is not forwarded, the call always names method 0
ReceiveCall_FixedIndex(a, r) ==
    [methodIndex |-> 0, context |-> context(r),
     request |-> request(r), responder |-> responder(r),
     cq |-> _cq'[a], tag |-> a]

\* the call _service.queue_receive(_methodIndex, &context, &request,
\* &responder, _cq, this) made for record r
ReceiveCall(a, r) ==
    [methodIndex |-> _methodIndex'[a], context |-> context(r),
     request |-> request(r), responder |-> responder(r),
     cq |-> _cq'[a], tag |-> a]

\* variant: no new uc_impl is allocated, the previous object is armed again
queue_receive_Reuse(a) ==
    IF _receivedCall[a] # NULL
    THEN /\ aborted' = TRUE
         /\ UNCHANGED <<_receivedCall, nextRec, armLog>>
    ELSE /\ _receivedCall' = [_receivedCall EXCEPT ![a] = <<a, 1>>]
         /\ nextRec' = [nextRec EXCEPT ![a] = 2]
         /\ armLog' = [armLog EXCEPT ![a] = Append(@, ReceiveCall(a, <<a, 1>>))]
         /\ aborted' = aborted

\* variant: the receive is registered twice for the one new record
queue_receive_Twice(a) ==
    IF _receivedCall[a] # NULL
    THEN /\ aborted' = TRUE
         /\ UNCHANGED <<_receivedCall, nextRec, armLog>>
    ELSE /\ _receivedCall' = [_receivedCall EXCEPT ![a] = NewRecord(a)]
         /\ nextRec' = [nextRec EXCEPT ![a] = @ + 1]
         /\ armLog' = [armLog EXCEPT ![a] =
                Append(Append(@, ReceiveCall(a, NewRecord(a))),
                       ReceiveCall(a, NewRecord(a)))]
         /\ aborted' = aborted

\* service_unary_call_data::queue_receive on acceptor a
queue_receive(a) ==
    IF _receivedCall[a] # NULL
    THEN /\ aborted' = TRUE
         /\ UNCHANGED <<_receivedCall, nextRec, armLog>>
    ELSE /\ _receivedCall' = [_receivedCall EXCEPT ![a] = NewRecord(a)]
         /\ nextRec' = [nextRec EXCEPT ![a] = @ + 1]
         /\ armLog' = [armLog EXCEPT ![a] = Append(@, ReceiveCall(a, NewRecord(a)))]
         /\ aborted' = aborted

\* -------------------------------------------------------------- constructor
\* The service creates its acceptors one after the other, in the order in
\* which the methods were registered (acceptor a serves the a-th method).
\* variant: the constructor does not call queue_receive
Construct_NoArm(a) ==
    /\ ~aborted
    /\ ~constructed[a]
    /\ \A b \in Acceptors : b < a => constructed[b]
    /\ \E mi \in MethodIndices, cq \in CompletionQueues,
          tp \in ThreadPools, cb \in Callbacks :
        /\ ctorArg' = [ctorArg EXCEPT ![a] =
               [methodIndex |-> mi, cq |-> cq, threadPool |-> tp, cb |-> cb]]
        /\ _methodIndex' = [_methodIndex EXCEPT ![a] = mi]
        /\ _cq' = [_cq EXCEPT ![a] = cq]
        /\ _threadPool' = [_threadPool EXCEPT ![a] = tp]
        /\ _cb' = [_cb EXCEPT ![a] = cb]
        /\ IF cq = "nullcq" \/ tp = "nullpool" \/ cb = "emptycb"
           THEN /\ aborted' = TRUE
                /\ UNCHANGED <<constructed, _receivedCall, nextRec, armLog>>
           ELSE /\ UNCHANGED <<aborted, _receivedCall, nextRec, armLog>>
                /\ constructed' = [constructed EXCEPT ![a] = TRUE]
    /\ UNCHANGED <<pc, receivedCall, submitted, pool, callbacks, delivered, heap>>

\* variant: BOOST_ASSERT(_threadPool) is missing
Construct_NoPoolAssert(a) ==
    /\ ~aborted
    /\ ~constructed[a]
    /\ \A b \in Acceptors : b < a => constructed[b]
    /\ \E mi \in MethodIndices, cq \in CompletionQueues,
          tp \in ThreadPools, cb \in Callbacks :
        /\ ctorArg' = [ctorArg EXCEPT ![a] =
               [methodIndex |-> mi, cq |-> cq, threadPool |-> tp, cb |-> cb]]
        /\ _methodIndex' = [_methodIndex EXCEPT ![a] = mi]
        /\ _cq' = [_cq EXCEPT ![a] = cq]
        /\ _threadPool' = [_threadPool EXCEPT ![a] = tp]
        /\ _cb' = [_cb EXCEPT ![a] = cb]
        /\ IF cq = "nullcq" \/ cb = "emptycb"
           THEN /\ aborted' = TRUE
                /\ UNCHANGED <<constructed, _receivedCall, nextRec, armLog>>
           ELSE /\ queue_receive(a)
                /\ constructed' = [constructed EXCEPT ![a] = TRUE]
    /\ UNCHANGED <<pc, receivedCall, submitted, pool, callbacks, delivered, heap>>

Construct(a) ==
    /\ ~aborted
    /\ ~constructed[a]
    /\ \A b \in Acceptors : b < a => constructed[b]
    /\ \E mi \in MethodIndices, cq \in CompletionQueues,
          tp \in ThreadPools, cb \in Callbacks :
        /\ ctorArg' = [ctorArg EXCEPT ![a] =
               [methodIndex |-> mi, cq |-> cq, threadPool |-> tp, cb |-> cb]]
        /\ _methodIndex' = [_methodIndex EXCEPT ![a] = mi]
        /\ _cq' = [_cq EXCEPT ![a] = cq]
        /\ _threadPool' = [_threadPool EXCEPT ![a] = tp]
        /\ _cb' = [_cb EXCEPT ![a] = cb]
        /\ IF cq = "nullcq" \/ tp = "nullpool" \/ cb = "emptycb"
           THEN /\ aborted' = TRUE
                /\ UNCHANGED <<constructed, _receivedCall, nextRec, armLog>>
           ELSE /\ queue_receive(a)
                /\ constructed' = [constructed EXCEPT ![a] = TRUE]
    /\ UNCHANGED <<pc, receivedCall, submitted, pool, callbacks, delivered, heap>>

\* ------------------------------------------------------------------- invoke
\* the completions the event source has delivered so far, over all acceptors
Deliveries == UNION {{a} \X DOMAIN delivered[a] : a \in Acceptors}

\* variant: the ok flag is ignored, every completion is handled as a call
Invoke_IgnoreOk(a, ok) ==
    /\ ~aborted
    /\ constructed[a]
    /\ pc[a] = "idle"
    /\ Cardinality(Deliveries) < MaxInvokes
    /\ delivered' = [delivered EXCEPT ![a] = Append(@, ok)]
    /\ receivedCall' = [receivedCall EXCEPT ![a] = _receivedCall[a]]
    /\ _receivedCall' = [_receivedCall EXCEPT ![a] = NULL]
    /\ pc' = [pc EXCEPT ![a] = "schedule"]
    /\ refCount' = AddRef(refCount, _receivedCall[a])
    /\ UNCHANGED <<constructed, aborted, ctorArg, members, nextRec, armLog,
                   submitted, pool, callbacks, responding, destroyed>>

\* variant: the shutdown branch drops the pending record
Invoke_ResetOnFailure(a, ok) ==
    /\ ~aborted
    /\ constructed[a]
    /\ pc[a] = "idle"
    /\ Cardinality(Deliveries) < MaxInvokes
    /\ delivered' = [delivered EXCEPT ![a] = Append(@, ok)]
    /\ IF ok
       THEN /\ receivedCall' = [receivedCall EXCEPT ![a] = _receivedCall[a]]
            /\ _receivedCall' = [_receivedCall EXCEPT ![a] = NULL]
            /\ pc' = [pc EXCEPT ![a] = "schedule"]
       ELSE /\ _receivedCall' = [_receivedCall EXCEPT ![a] = NULL]
            /\ UNCHANGED <<receivedCall, pc>>
    /\ refCount' = IF ok THEN AddRef(refCount, _receivedCall[a]) ELSE refCount
    /\ UNCHANGED <<constructed, aborted, ctorArg, members, nextRec, armLog,
                   submitted, pool, callbacks, responding, destroyed>>

\* variant: the shutdown branch calls queue_receive as well
Invoke_RequeueOnFailure(a, ok) ==
    /\ ~aborted
    /\ constructed[a]
    /\ pc[a] = "idle"
    /\ Cardinality(Deliveries) < MaxInvokes
    /\ delivered' = [delivered EXCEPT ![a] = Append(@, ok)]
    /\ refCount' = IF ok THEN AddRef(refCount, _receivedCall[a]) ELSE refCount
    /\ UNCHANGED <<constructed, ctorArg, members, submitted, pool, callbacks,
                   responding, destroyed>>
    /\ IF ok
       THEN /\ receivedCall' = [receivedCall EXCEPT ![a] = _receivedCall[a]]
            /\ _receivedCall' = [_receivedCall EXCEPT ![a] = NULL]
            /\ pc' = [pc EXCEPT ![a] = "schedule"]
            /\ UNCHANGED <<aborted, nextRec, armLog>>
       ELSE /\ queue_receive(a)
            /\ UNCHANGED <<receivedCall, pc>>

\* variant: the pointer is read with get(), _receivedCall keeps the record
Invoke_NoRelease(a, ok) ==
    /\ ~aborted
    /\ constructed[a]
    /\ pc[a] = "idle"
    /\ Cardinality(Deliveries) < MaxInvokes
    /\ delivered' = [delivered EXCEPT ![a] = Append(@, ok)]
    /\ IF ok
       THEN /\ receivedCall' = [receivedCall EXCEPT ![a] = _receivedCall[a]]
            /\ pc' = [pc EXCEPT ![a] = "schedule"]
            /\ UNCHANGED _receivedCall
       ELSE UNCHANGED <<receivedCall, _receivedCall, pc>>
    /\ refCount' = IF ok THEN AddRef(refCount, _receivedCall[a]) ELSE refCount
    /\ UNCHANGED <<constructed, aborted, ctorArg, members, nextRec, armLog,
                   submitted, pool, callbacks, responding, destroyed>>

\* variant: the shutdown branch cancels the tasks this acceptor scheduled
Invoke_CancelOnFailure(a, ok) ==
    /\ ~aborted
    /\ constructed[a]
    /\ pc[a] = "idle"
    /\ Cardinality(Deliveries) < MaxInvokes
    /\ delivered' = [delivered EXCEPT ![a] = Append(@, ok)]
    /\ IF ok
       THEN /\ receivedCall' = [receivedCall EXCEPT ![a] = _receivedCall[a]]
            /\ _receivedCall' = [_receivedCall EXCEPT ![a] = NULL]
            /\ pc' = [pc EXCEPT ![a] = "schedule"]
            /\ pool' = pool
       ELSE /\ pool' = {t \in pool : t.acceptor # a}
            /\ UNCHANGED <<receivedCall, _receivedCall, pc>>
    /\ refCount' = IF ok THEN AddRef(refCount, _receivedCall[a]) ELSE refCount
    /\ UNCHANGED <<constructed, aborted, ctorArg, members, nextRec, armLog,
                   submitted, callbacks, responding, destroyed>>

\* variant: invoke(true) re-arms right after the detach, before it schedules
Invoke_ArmFirst(a, ok) ==
    /\ ~aborted
    /\ constructed[a]
    /\ pc[a] = "idle"
    /\ Cardinality(Deliveries) < MaxInvokes
    /\ delivered' = [delivered EXCEPT ![a] = Append(@, ok)]
    /\ refCount' = IF ok THEN AddRef(refCount, _receivedCall[a]) ELSE refCount
    /\ UNCHANGED <<constructed, aborted, ctorArg, members, submitted, pool,
                   callbacks, responding, destroyed>>
    /\ IF ok
       THEN /\ receivedCall' = [receivedCall EXCEPT ![a] = _receivedCall[a]]
            /\ _receivedCall' = [_receivedCall EXCEPT ![a] = NewRecord(a)]
            /\ nextRec' = [nextRec EXCEPT ![a] = @ + 1]
            /\ armLog' = [armLog EXCEPT ![a] =
                   Append(@, ReceiveCall(a, NewRecord(a)))]
            /\ pc' = [pc EXCEPT ![a] = "schedule"]
       ELSE UNCHANGED <<receivedCall, _receivedCall, pc, nextRec, armLog>>

\* variant: _receivedCall is one slot shared by all acceptors (a static)
Invoke_StaticSlot(a, ok) ==
    /\ ~aborted
    /\ constructed[a]
    /\ pc[a] = "idle"
    /\ Cardinality(Deliveries) < MaxInvokes
    /\ delivered' = [delivered EXCEPT ![a] = Append(@, ok)]
    /\ IF ok
       THEN /\ receivedCall' = [receivedCall EXCEPT ![a] = _receivedCall[a]]
            /\ _receivedCall' = [b \in Acceptors |-> NULL]
            /\ pc' = [pc EXCEPT ![a] = "schedule"]
       ELSE UNCHANGED <<receivedCall, _receivedCall, pc>>
    /\ refCount' = IF ok THEN AddRef(refCount, _receivedCall[a]) ELSE refCount
    /\ UNCHANGED <<constructed, aborted, ctorArg, members, nextRec, armLog,
                   submitted, pool, callbacks, responding, destroyed>>

\* invoke(ok) is entered; with ok the record is detached from _receivedCall
\* (line 86), without ok the call returns at once
Invoke(a, ok) ==
    /\ ~aborted
    /\ constructed[a]
    /\ pc[a] = "idle"
    /\ Cardinality(Deliveries) < MaxInvokes
    /\ delivered' = [delivered EXCEPT ![a] = Append(@, ok)]
    /\ IF ok
       THEN /\ receivedCall' = [receivedCall EXCEPT ![a] = _receivedCall[a]]
            /\ _receivedCall' = [_receivedCall EXCEPT ![a] = NULL]
            /\ pc' = [pc EXCEPT ![a] = "schedule"]
       ELSE UNCHANGED <<receivedCall, _receivedCall, pc>>
    /\ refCount' = IF ok THEN AddRef(refCount, _receivedCall[a]) ELSE refCount
    /\ UNCHANGED <<constructed, aborted, ctorArg, members, nextRec, armLog,
                   submitted, pool, callbacks, responding, destroyed>>

\* variant: the task is not handed to the thread pool
Schedule_Skip(a) ==
    /\ ~aborted
    /\ pc[a] = "schedule"
    /\ receivedCall' = [receivedCall EXCEPT ![a] = NULL]
    /\ pc' = [pc EXCEPT ![a] = "rearm"]
    /\ refCount' = Release(refCount, receivedCall[a])
    /\ destroyed' = DeleteOnRelease(refCount, destroyed, receivedCall[a])
    /\ UNCHANGED <<constructed, aborted, ctorArg, members, _receivedCall,
                   nextRec, armLog, submitted, pool, callbacks, delivered,
                   responding>>

\* variant: the record is captured by a task that is scheduled twice
Schedule_Twice(a) ==
    /\ ~aborted
    /\ pc[a] = "schedule"
    /\ submitted' = [submitted EXCEPT ![a] =
                         Append(Append(@, receivedCall[a]), receivedCall[a])]
    /\ pool' = pool \cup {[acceptor |-> a, n |-> Len(submitted[a]) + k,
                           rec |-> receivedCall[a]] : k \in 1..2}
    /\ receivedCall' = [receivedCall EXCEPT ![a] = NULL]
    /\ pc' = [pc EXCEPT ![a] = "rearm"]
    /\ refCount' = Release(AddRef(AddRef(refCount, receivedCall[a]),
                                   receivedCall[a]), receivedCall[a])
    /\ UNCHANGED <<constructed, aborted, ctorArg, members, _receivedCall,
                   nextRec, armLog, callbacks, delivered, responding, destroyed>>

\* variant: the lambda captures the raw pointer and takes no reference
Schedule_NoCapture(a) ==
    /\ ~aborted
    /\ pc[a] = "schedule"
    /\ submitted' = [submitted EXCEPT ![a] = Append(@, receivedCall[a])]
    /\ pool' = pool \cup {[acceptor |-> a, n |-> Len(submitted[a]) + 1,
                           rec |-> receivedCall[a]]}
    /\ receivedCall' = [receivedCall EXCEPT ![a] = NULL]
    /\ pc' = [pc EXCEPT ![a] = "rearm"]
    /\ refCount' = Release(refCount, receivedCall[a])
    /\ destroyed' = DeleteOnRelease(refCount, destroyed, receivedCall[a])
    /\ UNCHANGED <<constructed, aborted, ctorArg, members, _receivedCall,
                   nextRec, armLog, callbacks, delivered, responding>>

\* _threadPool->schedule(lambda capturing the record), lines 88-92
Schedule(a) ==
    /\ ~aborted
    /\ pc[a] = "schedule"
    /\ submitted' = [submitted EXCEPT ![a] = Append(@, receivedCall[a])]
    /\ pool' = pool \cup {[acceptor |-> a, n |-> Len(submitted[a]) + 1,
                           rec |-> receivedCall[a]]}
    /\ receivedCall' = [receivedCall EXCEPT ![a] = NULL]
    /\ pc' = [pc EXCEPT ![a] = "rearm"]
    /\ refCount' = Release(AddRef(refCount, receivedCall[a]), receivedCall[a])
    /\ destroyed' = DeleteOnRelease(AddRef(refCount, receivedCall[a]), destroyed,
                                    receivedCall[a])
    /\ UNCHANGED <<constructed, aborted, ctorArg, members, _receivedCall,
                   nextRec, armLog, callbacks, delivered, responding>>

\* variant: the re-arm waits until the tasks of this acceptor have run
ReArm_WaitsForTask(a) ==
    /\ ~aborted
    /\ pc[a] = "rearm"
    /\ \A t \in pool : t.acceptor # a
    /\ UNCHANGED <<constructed, ctorArg, members, receivedCall, submitted,
                   pool, callbacks, delivered, heap>>
    /\ queue_receive(a)
    /\ pc' = [pc EXCEPT ![a] = "idle"]

\* the queue_receive() that ends invoke(true), line 94
ReArm(a) ==
    /\ ~aborted
    /\ pc[a] = "rearm"
    /\ UNCHANGED <<constructed, ctorArg, members, receivedCall, submitted,
                   pool, callbacks, delivered, heap>>
    /\ queue_receive(a)
    /\ pc' = [pc EXCEPT ![a] = "idle"]

\* ---------------------------------------------------------------- the pool
\* what the user callback does with the unary_call it is given: it starts
\* the response write, which keeps a reference of its own until the write
\* has finished, or it returns without responding
UserCallback(rc, r, responds) == IF responds THEN AddRef(rc, r) ELSE rc

\* the thread pool runs a scheduled task: the record is moved from the lambda
\* into the unary_call, _cb runs, and the unary_call is destroyed (line 90)
RunTask(t) ==
    /\ ~aborted
    /\ t \in pool
    /\ pool' = pool \ {t}
    /\ callbacks' = callbacks (+) SetToBag({t.rec})
    /\ \E responds \in BOOLEAN :
        /\ responding' = IF responds THEN responding \cup {t.rec} ELSE responding
        /\ refCount' = Release(UserCallback(refCount, t.rec, responds), t.rec)
        /\ destroyed' = DeleteOnRelease(UserCallback(refCount, t.rec, responds),
                                        destroyed, t.rec)
    /\ UNCHANGED <<constructed, aborted, ctorArg, members, _receivedCall, pc,
                   receivedCall, nextRec, armLog, submitted, delivered>>

\* the response write of record r has finished: the response path drops its
\* reference
ResponseDone(r) ==
    /\ ~aborted
    /\ r \in responding
    /\ responding' = responding \ {r}
    /\ refCount' = Release(refCount, r)
    /\ destroyed' = DeleteOnRelease(refCount, destroyed, r)
    /\ UNCHANGED <<constructed, aborted, ctorArg, members, _receivedCall, pc,
                   receivedCall, nextRec, armLog, submitted, pool, callbacks,
                   delivered>>

Next ==
    \/ \E a \in Acceptors : Construct(a)
    \/ \E a \in Acceptors, ok \in BOOLEAN : Invoke(a, ok)
    \/ \E a \in Acceptors : Schedule(a)
    \/ \E a \in Acceptors : ReArm(a)
    \/ \E t \in pool : RunTask(t)
    \/ \E r \in responding : ResponseDone(r)

Spec == Init /\ [][Next]_vars

\* ------------------------------------------------- disciplined event source
\* the receives acceptor a has registered whose completion is not delivered
Outstanding(a) == Len(armLog[a]) - Len(delivered[a])

\* the completion queue delivers the completion of a registered receive:
\* one invoke per queue_receive call
DeliverCompletion(a, ok) ==
    /\ Outstanding(a) > 0
    /\ Invoke(a, ok)

NextDisciplined ==
    \/ \E a \in Acceptors : Construct(a)
    \/ \E a \in Acceptors, ok \in BOOLEAN : DeliverCompletion(a, ok)
    \/ \E a \in Acceptors : Schedule(a)
    \/ \E a \in Acceptors : ReArm(a)
    \/ \E t \in pool : RunTask(t)
    \/ \E r \in responding : ResponseDone(r)

SpecDisciplined == Init /\ [][NextDisciplined]_vars

\* ------------------------------------------------------------ fair schedule
\* a construction whose assertions hold: the service wires valid collaborators
ConstructValid(a) == Construct(a) /\ constructed'[a]

\* the thread pool runs the n-th task acceptor a scheduled
RunTaskOf(a, n) == \E t \in pool : t.acceptor = a /\ t.n = n /\ RunTask(t)

NextServing ==
    \/ \E a \in Acceptors : ConstructValid(a)
    \/ \E a \in Acceptors, ok \in BOOLEAN : Invoke(a, ok)
    \/ \E a \in Acceptors : Schedule(a)
    \/ \E a \in Acceptors : ReArm(a)
    \/ \E t \in pool : RunTask(t)
    \/ \E r \in responding : ResponseDone(r)

\* A serving process: the thread that entered invoke(true) goes on to schedule
\* the task, and the thread pool eventually runs every task scheduled on it.
SpecFair ==
    /\ Init
    /\ [][NextServing]_vars
    /\ \A a \in Acceptors : WF_vars(Schedule(a))
    /\ \A a \in Acceptors : \A n \in 1..MaxInvokes : WF_vars(RunTaskOf(a, n))

\* ================================================================ properties
\* number of invoke(true) calls delivered to a
NumTrue(a) == Cardinality({i \in DOMAIN delivered[a] : delivered[a][i]})
\* an invoke(false) has been delivered to a
ShutDown(a) == \E i \in DOMAIN delivered[a] : ~delivered[a][i]
\* no invoke(true) follows an invoke(false) in d
NoTrueAfterFalse(d) == \A i, j \in DOMAIN d : (i < j /\ ~d[i]) => ~d[j]
\* the last call delivered to a by this step is invoke(false)
FalseDelivered(a) ==
    /\ Len(delivered'[a]) = Len(delivered[a]) + 1
    /\ ~delivered'[a][Len(delivered'[a])]
\* the record whose fields an arm operation passed
RecOf(e) == e.context[1]
\* the records detached from any acceptor so far
Detached ==
    UNION {{submitted[b][i] : i \in DOMAIN submitted[b]} : b \in Acceptors}
        \cup {receivedCall[b] : b \in {c \in Acceptors : receivedCall[c] # NULL}}
\* the scheduled tasks of a that have not run
Pending(a) == {t \in pool : t.acceptor = a}
InvalidArg(arg) ==
    arg # NoArg /\ (arg.cq = "nullcq" \/ arg.threadPool = "nullpool" \/ arg.cb = "emptycb")

\* C1: after construction and N invoke(true) calls (no invoke(false)), once
\* the last invoke has returned, exactly N tasks have been submitted and
\* exactly N+1 arm operations have been issued.
C1_CountsAfterNInvokes ==
    \A a \in Acceptors :
        (constructed[a] /\ pc[a] = "idle" /\ ~ShutDown(a)) =>
            /\ Len(submitted[a]) = NumTrue(a)
            /\ Len(armLog[a]) = NumTrue(a) + 1

C1_Witness ==
    \E a \in Acceptors :
        /\ constructed[a] /\ pc[a] = "idle" /\ ~ShutDown(a)
        /\ NumTrue(a) >= 2 /\ Len(submitted[a]) >= 2

\* C2 (as claimed): once invoke(false) has been delivered to an acceptor, no
\* later step, whatever invoke calls follow, issues an arm operation or
\* submits a task for it.
C2_TerminalAbsorbing ==
    [][\A a \in Acceptors :
          ShutDown(a) => (armLog'[a] = armLog[a] /\ submitted'[a] = submitted[a])]_vars

\* C2 (amended): once invoke(false) has been delivered to an acceptor, no arm
\* operation is issued and no task is submitted for it as long as the calls
\* that follow are invoke(false) calls.
C2_AbsorbsFurtherFalse ==
    [][\A a \in Acceptors :
          (ShutDown(a) /\ NoTrueAfterFalse(delivered'[a])) =>
              (armLog'[a] = armLog[a] /\ submitted'[a] = submitted[a])]_vars

C2_Witness ==
    \E a \in Acceptors :
        /\ Len(delivered[a]) >= 3
        /\ delivered[a][1]
        /\ ~delivered[a][Len(delivered[a]) - 1] /\ ~delivered[a][Len(delivered[a])]
        /\ Len(armLog[a]) = 2 /\ Len(submitted[a]) = 1

\* C3: between invoke calls before shutdown the acceptor holds exactly one
\* pending record, and it is none of the records detached so far.
C3_PendingDistinctFromDetached ==
    \A a \in Acceptors :
        (constructed[a] /\ pc[a] = "idle" /\ ~ShutDown(a)) =>
            /\ _receivedCall[a] # NULL
            /\ _receivedCall[a] \notin Detached
            /\ \A b \in Acceptors \ {a} : _receivedCall[b] # _receivedCall[a]

C3_Witness ==
    \E a \in Acceptors :
        /\ constructed[a] /\ pc[a] = "idle" /\ ~ShutDown(a)
        /\ Len(submitted[a]) >= 2
        /\ \E b \in Acceptors \ {a} : Len(submitted[b]) >= 1

\* C4 (as claimed): after invoke(false) the acceptor holds no pending record,
\* in every later state.
C4_ZeroAfterShutdown ==
    \A a \in Acceptors : ShutDown(a) => _receivedCall[a] = NULL

\* C4 (amended): invoke(false) leaves the pending record in place: a
\* constructed acceptor holds no pending record exactly in the states inside
\* invoke(true) between the detach and the re-arm, and after invoke(false)
\* it still holds the record of its last arm operation.
C4_ZeroOnlyInsideInvoke ==
    \A a \in Acceptors :
        constructed[a] =>
            /\ (_receivedCall[a] = NULL) <=> (pc[a] \in {"schedule", "rearm"})
            /\ (ShutDown(a) /\ pc[a] = "idle") =>
                   _receivedCall[a] = RecOf(armLog[a][Len(armLog[a])])

C4_Witness ==
    \E a \in Acceptors :
        /\ ShutDown(a) /\ pc[a] = "idle" /\ NumTrue(a) >= 1
        /\ NoTrueAfterFalse(delivered[a])
        /\ _receivedCall[a] # NULL

\* C5: no step of invoke(true) waits for the thread pool: whatever tasks are
\* still to run, a started invoke(true) can schedule and re-arm, and an armed
\* acceptor accepts the next invoke(true).
C5_RearmNotDeferred ==
    \A a \in Acceptors :
        ~aborted =>
            /\ pc[a] = "schedule" => ENABLED Schedule(a)
            /\ pc[a] = "rearm" => ENABLED ReArm(a)
            /\ (constructed[a] /\ pc[a] = "idle"
                    /\ Cardinality(Deliveries) < MaxInvokes) =>
                   ENABLED Invoke(a, TRUE)

C5_Witness ==
    \E a \in Acceptors :
        /\ ~aborted /\ pc[a] = "idle"
        /\ Cardinality(Pending(a)) >= 2
        /\ callbacks = EmptyBag
        /\ _receivedCall[a] # NULL
        /\ _receivedCall[a] \notin {t.rec : t \in pool}
        /\ Cardinality(Deliveries) < MaxInvokes

\* C6: right after a construction with valid collaborators, before any
\* invoke, exactly one arm operation has been issued, the acceptor holds the
\* one record of that arm and no task has been submitted.
C6_ArmedByConstruction ==
    \A a \in Acceptors :
        (constructed[a] /\ delivered[a] = <<>>) =>
            /\ Len(armLog[a]) = 1
            /\ _receivedCall[a] # NULL
            /\ _receivedCall[a] = RecOf(armLog[a][1])
            /\ pc[a] = "idle"
            /\ submitted[a] = <<>>
            /\ Pending(a) = {}

C6_Witness ==
    \E a \in Acceptors :
        /\ constructed[a] /\ delivered[a] = <<>> /\ ~aborted
        /\ ~InvalidArg(ctorArg[a])

\* C7: a construction with a null completion queue, a null thread pool or an
\* empty callback ends in an assertion failure before the arm step: no arm
\* operation is issued and no record is created for it.
C7_NullCollaboratorFatal ==
    \A a \in Acceptors :
        InvalidArg(ctorArg[a]) =>
            /\ aborted
            /\ ~constructed[a]
            /\ armLog[a] = <<>>
            /\ _receivedCall[a] = NULL
            /\ nextRec[a] = 1

C7_Witness ==
    \E a \in Acceptors :
        /\ ctorArg[a].threadPool = "nullpool"
        /\ ctorArg[a].cq = "cq" /\ ctorArg[a].cb = "cb"
        /\ aborted
        /\ \E b \in Acceptors \ {a} : Len(armLog[b]) >= 2

\* C8: the step that delivers invoke(false) creates no record, submits no
\* task, issues no arm operation and raises no error.
C8_FalseIsAbsorbed ==
    [][\A a \in Acceptors :
          FalseDelivered(a) =>
              /\ armLog' = armLog
              /\ submitted' = submitted
              /\ pool' = pool
              /\ nextRec' = nextRec
              /\ ~aborted'
              /\ pc'[a] = "idle"]_vars

C8_Witness ==
    \E a \in Acceptors :
        /\ ShutDown(a) /\ ~delivered[a][Len(delivered[a])]
        /\ Len(armLog[a]) >= 2

\* C9: every arm operation of an acceptor passes the method index given to
\* the constructor, the acceptor itself as tag, and the context, request and
\* responder of the record created in that arm step, which is no record of
\* an earlier arm operation.
C9_ArmArguments ==
    \A a \in Acceptors :
        \A i \in DOMAIN armLog[a] :
            LET e == armLog[a][i] IN
            /\ e.methodIndex = ctorArg[a].methodIndex
            /\ e.tag = a
            /\ e.context = context(RecOf(e))
            /\ e.request = request(RecOf(e))
            /\ e.responder = responder(RecOf(e))
            /\ (i = Len(armLog[a]) /\ pc[a] = "idle") => RecOf(e) = _receivedCall[a]
            /\ \A b \in Acceptors : \A j \in DOMAIN armLog[b] :
                   (<<b, j>> # <<a, i>>) => RecOf(armLog[b][j]) # RecOf(e)

C9_Witness ==
    \E a \in Acceptors :
        /\ Len(armLog[a]) >= 3
        /\ ctorArg[a].methodIndex = MaxMethodIndex
        /\ pc[a] = "idle"

\* C10: each invoke(true) hands exactly one record to exactly one task, the
\* record of the arm operation that preceded it; no record is handed to two
\* tasks and no task holds a record that was never armed.
C10_OneRecordPerTask ==
    /\ \A a \in Acceptors :
          /\ Len(submitted[a]) <= Len(armLog[a])
          /\ pc[a] = "idle" => Len(submitted[a]) = NumTrue(a)
          /\ pc[a] = "rearm" => Len(submitted[a]) = NumTrue(a)
          /\ pc[a] = "schedule" => Len(submitted[a]) = NumTrue(a) - 1
          /\ \A i \in DOMAIN submitted[a] :
                /\ submitted[a][i] = RecOf(armLog[a][i])
                /\ \A b \in Acceptors : \A j \in DOMAIN submitted[b] :
                       (<<b, j>> # <<a, i>>) => submitted[b][j] # submitted[a][i]
    /\ \A t \in pool :
          /\ t.n \in DOMAIN submitted[t.acceptor]
          /\ t.rec = submitted[t.acceptor][t.n]

C10_Witness ==
    \E a \in Acceptors :
        /\ Len(submitted[a]) >= 2
        /\ Cardinality(Pending(a)) >= 1
        /\ \E b \in Acceptors \ {a} : Len(submitted[b]) >= 1

\* the holders of a reference to record r: the acceptor's unique_ptr, the
\* local of a running invoke, scheduled tasks, the response path
OwnedByAcceptor(r) == \E a \in Acceptors : _receivedCall[a] = r
SharedHolders(r) ==
    Cardinality({a \in Acceptors : receivedCall[a] = r})
        + Cardinality({t \in pool : t.rec = r})
        + (IF r \in responding THEN 1 ELSE 0)

\* C11: a record is deleted at most once and only when its last reference
\* has been dropped: no deleted record is held by the acceptor, by a running
\* invoke, by a task still to run or by the response path, and the reference
\* count of every record is the number of its shared holders.
C11_DestroyedOnceWhenUnreferenced ==
    LET detached == Detached IN
    \A r \in Records :
        /\ destroyed[r] <= 1
        /\ refCount[r] = SharedHolders(r)
        /\ destroyed[r] > 0 => (~OwnedByAcceptor(r) /\ refCount[r] = 0)
        /\ (refCount[r] = 0 /\ r \in detached) => destroyed[r] = 1

C11_Witness ==
    \E r1, r2, r3 \in Records :
        /\ destroyed[r1] = 1
        /\ r2 \in responding
        /\ r3 \in {t.rec : t \in pool}

\* C12: from its creation until the detach a record is held by the acceptor
\* alone: no shared reference, task, callback or response refers to it; from
\* the detach on the acceptor's slot is empty until the re-arm, and the slot
\* never again holds a detached record.
C12_OwnershipHandOff ==
    \A a \in Acceptors :
        /\ _receivedCall[a] # NULL =>
              /\ refCount[_receivedCall[a]] = 0
              /\ SharedHolders(_receivedCall[a]) = 0
              /\ destroyed[_receivedCall[a]] = 0
              /\ ~BagIn(_receivedCall[a], callbacks)
              /\ _receivedCall[a] \notin Detached
              /\ \A b \in Acceptors \ {a} : _receivedCall[b] # _receivedCall[a]
        /\ pc[a] \in {"schedule", "rearm"} => _receivedCall[a] = NULL
        /\ pc[a] = "schedule" =>
              (receivedCall[a] # NULL /\ refCount[receivedCall[a]] = 1)

C12_Witness ==
    \E a \in Acceptors :
        /\ pc[a] = "schedule" /\ Len(submitted[a]) >= 1
        /\ receivedCall[a] = RecOf(armLog[a][Len(armLog[a])])

\* C13: when the event source delivers one invoke per arm operation, an
\* acceptor has at most one receive outstanding: exactly one while it is
\* armed, none while an invoke is running and none once invoke(false) has
\* been delivered, so no invoke can be delivered while another one runs.
C13_OneOutstandingAccept ==
    \A a \in Acceptors :
        /\ Outstanding(a) \in {0, 1}
        /\ (constructed[a] /\ pc[a] = "idle" /\ ~ShutDown(a)) => Outstanding(a) = 1
        /\ ShutDown(a) => Outstanding(a) = 0
        /\ Outstanding(a) > 0 => (pc[a] = "idle" /\ _receivedCall[a] # NULL)
        /\ ~constructed[a] => Outstanding(a) = 0

C13_Witness ==
    \E a \in Acceptors :
        /\ ShutDown(a) /\ NumTrue(a) >= 1 /\ Outstanding(a) = 0
        /\ \E b \in Acceptors \ {a} : NumTrue(b) >= 1 /\ Outstanding(b) = 1

\* C14: the step that delivers invoke(false) removes or alters no scheduled
\* task and releases no detached record; the tasks scheduled before it are
\* still in the pool, can run, and their records are alive.
C14_ShutdownKeepsInFlightWork ==
    [][\A a \in Acceptors :
          FalseDelivered(a) =>
              /\ pool' = pool
              /\ submitted' = submitted
              /\ callbacks' = callbacks
              /\ refCount' = refCount
              /\ responding' = responding
              /\ destroyed' = destroyed
              /\ \A t \in pool' :
                    /\ refCount'[t.rec] >= 1
                    /\ destroyed'[t.rec] = 0
                    /\ ENABLED RunTask(t)
              /\ aborted' = aborted]_vars

C14_Witness ==
    \E a \in Acceptors :
        /\ ShutDown(a) /\ ~delivered[a][Len(delivered[a])]
        /\ Cardinality(Pending(a)) >= 1
        /\ \E r \in responding : r[1] = a

\* C15: the assertion at the start of queue_receive never fails: every step
\* that issues an arm operation starts with an empty slot and ends with the
\* slot holding the record it armed, and the only assertion failures are
\* those of a construction with a null collaborator.
C15_ArmAssertionHolds ==
    [][/\ \A a \in Acceptors :
             Len(armLog'[a]) > Len(armLog[a]) =>
                 /\ _receivedCall[a] = NULL
                 /\ _receivedCall'[a] # NULL
                 /\ _receivedCall'[a] = RecOf(armLog'[a][Len(armLog'[a])])
                 /\ Len(armLog'[a]) = Len(armLog[a]) + 1
       /\ (aborted' /\ ~aborted) =>
             \E a \in Acceptors : InvalidArg(ctorArg'[a]) /\ ctorArg[a] = NoArg]_vars

C15_Witness ==
    \E a \in Acceptors :
        /\ ~aborted /\ pc[a] = "idle"
        /\ Len(delivered[a]) >= 3
        /\ ~delivered[a][1] /\ delivered[a][2] /\ delivered[a][3]
        /\ Len(armLog[a]) = 3

\* C16: within invoke(true) the steps are detach, schedule, re-arm: the arm
\* operation for call k+1 is issued only after the task with the record of
\* call k has been scheduled, and call k+1 is not delivered before that.
C16_ScheduleBeforeRearm ==
    \A a \in Acceptors :
        /\ Len(armLog[a]) <= Len(submitted[a]) + 1
        /\ NumTrue(a) <= Len(submitted[a]) + 1
        /\ pc[a] = "schedule" =>
              (Len(armLog[a]) = Len(submitted[a]) + 1 /\ _receivedCall[a] = NULL)
        /\ pc[a] = "rearm" =>
              (Len(armLog[a]) = Len(submitted[a]) /\ _receivedCall[a] = NULL)
        /\ \A k \in DOMAIN armLog[a] :
              k >= 2 => (/\ k - 1 \in DOMAIN submitted[a]
                         /\ submitted[a][k - 1] = RecOf(armLog[a][k - 1]))

C16_Witness ==
    \E a \in Acceptors :
        /\ pc[a] = "rearm" /\ Len(submitted[a]) >= 2
        /\ Len(armLog[a]) = Len(submitted[a])

\* the user callback has been invoked once with the record the n-th
\* invoke(true) of acceptor a detached
CalledBack(a, n) ==
    /\ n \in DOMAIN armLog[a]
    /\ CopiesIn(RecOf(armLog[a][n]), callbacks) = 1

\* C17: no work is dropped: when the thread pool runs every task scheduled on
\* it, every invoke(true) of an acceptor is eventually followed by one
\* invocation of the user callback with the record that invoke detached,
\* whether or not invoke(false) comes first; no record is passed to the
\* callback twice and there are never more callback invocations than
\* invoke(true) calls.
C17_NoDroppedWork ==
    /\ [](/\ \A r \in Records : CopiesIn(r, callbacks) <= 1
          /\ \A a \in Acceptors :
                Cardinality({r \in Records : r[1] = a /\ BagIn(r, callbacks)})
                    <= NumTrue(a))
    /\ \A a \in Acceptors :
          []<>(\A n \in 1..NumTrue(a) : CalledBack(a, n))

C17_Witness ==
    \E a \in Acceptors :
        /\ ~aborted /\ ShutDown(a) /\ NumTrue(a) >= 2
        /\ ~delivered[a][2]
        /\ Pending(a) = {}
        /\ \A n \in 1..NumTrue(a) : CalledBack(a, n)

\* everything acceptor a holds and has done
AcceptorState(a) ==
    <<constructed[a], ctorArg[a], _methodIndex[a], _cq[a], _threadPool[a],
      _cb[a], _receivedCall[a], pc[a], receivedCall[a], nextRec[a], armLog[a],
      submitted[a], delivered[a]>>

\* C18: acceptors do not interfere: a step of one acceptor's invoke leaves
\* the state of every other acceptor as it is (so invoke(false) on one leaves
\* the others armed); between invokes the pending record and the counts of
\* arm operations and tasks of an acceptor are determined by the invoke
\* calls delivered to it, and every task it scheduled holds a record armed
\* by that acceptor and by no other.
C18_AcceptorsIndependent ==
    [][\A a \in Acceptors :
          /\ (delivered'[a] # delivered[a] \/ pc'[a] # pc[a]) =>
                \A b \in Acceptors \ {a} : AcceptorState(b)' = AcceptorState(b)
          /\ (constructed'[a] /\ pc'[a] = "idle") =>
                /\ Len(armLog'[a]) = NumTrue(a)' + 1
                /\ Len(submitted'[a]) = NumTrue(a)'
                /\ _receivedCall'[a] = RecOf(armLog'[a][NumTrue(a)' + 1])
          /\ \A i \in DOMAIN submitted'[a] :
                /\ \E j \in DOMAIN armLog'[a] :
                       RecOf(armLog'[a][j]) = submitted'[a][i]
                /\ \A b \in Acceptors \ {a} : \A j \in DOMAIN armLog'[b] :
                       RecOf(armLog'[b][j]) # submitted'[a][i]]_vars

C18_Witness ==
    \E a \in Acceptors : \E b \in Acceptors \ {a} :
        /\ ShutDown(a) /\ NumTrue(a) >= 1
        /\ constructed[b] /\ pc[b] = "idle" /\ ~ShutDown(b) /\ NumTrue(b) >= 1
        /\ _receivedCall[b] # NULL
        /\ ~aborted

\* C19: every task handed to the thread pool carries a record: whenever an
\* invoke can be delivered to an acceptor its slot holds a record, so the
\* detach of invoke(true) never yields an empty handle, whatever invoke calls
\* came before.
C19_TaskRecordNonEmpty ==
    /\ \A t \in pool : t.rec # NULL /\ t.rec \in Records
    /\ \A a \in Acceptors :
          /\ \A i \in DOMAIN submitted[a] : submitted[a][i] # NULL
          /\ pc[a] = "schedule" => receivedCall[a] # NULL
          /\ (ENABLED Invoke(a, TRUE) \/ ENABLED Invoke(a, FALSE)) =>
                _receivedCall[a] # NULL

C19_Witness ==
    \E a \in Acceptors :
        /\ Len(delivered[a]) >= 2 /\ ~delivered[a][1] /\ delivered[a][2]
        /\ Cardinality(Pending(a)) >= 1
        /\ ENABLED Invoke(a, TRUE)

====
